---- MODULE Spec2Model ----
(***************************************************************************)
(* Model of the site crawler of King/server: services/crawler.js           *)
(* (CrawlerService), middlewares/rateLimit.js (RateLimiter) and the        *)
(* Website model (models/Website.js).                                      *)
(*                                                                         *)
(* A URL string is a sequence of lexical tokens: a scheme name, ":", "/",  *)
(* a host label, a port number, "." and a path letter.  new URL(), the     *)
(* protocol and pathname setters and the href getter are modelled on these *)
(* sequences as the WHATWG URL algorithm performs them.                    *)
(*                                                                         *)
(* this.limiter is taken to be the middleware createLimiter returns for    *)
(* the crawler's config, as the constructor intends; the import at         *)
(* crawler.js:7 destructures a property `rateLimit` that rateLimit.js does *)
(* not export.                                                             *)
(***************************************************************************)
EXTENDS Integers, Sequences, FiniteSets, TLC

(***************************************************************************)
(* Bounds of the model.                                                    *)
(***************************************************************************)
MaxPathLen == 3

(***************************************************************************)
(* URL strings.                                                            *)
(***************************************************************************)
Schemes == {"http", "https", "ftp"}
HostNames == {"a", "b"}
PortNames == {"80", "443"}
PathChars == {"/", "x", "."}

DefaultPort(scheme) ==
  CASE scheme = "http" -> "80"
    [] scheme = "https" -> "443"
    [] OTHER -> "21"

NoPort == "none"

NullUrl == [ok |-> FALSE, scheme |-> "", host |-> "", port |-> NoPort, path |-> <<>>]

\* sequences over S of length at most n
RECURSIVE SeqsUpTo(_, _)
SeqsUpTo(S, n) ==
  IF n = 0 THEN {<<>>}
  ELSE LET shorter == SeqsUpTo(S, n - 1)
       IN  shorter \cup {Append(s, c) : s \in {t \in shorter : Len(t) = n - 1}, c \in S}

\* the segments of a path string: the pieces between the "/" of p, the
\* leading "/" consumed by the path start state
RECURSIVE SplitSegments(_, _, _)
SplitSegments(p, i, cur) ==
  IF i > Len(p) THEN <<cur>>
  ELSE IF p[i] = "/" THEN <<cur>> \o SplitSegments(p, i + 1, <<>>)
  ELSE SplitSegments(p, i + 1, Append(cur, p[i]))

Shorten(path) ==
  IF Len(path) = 0 THEN path ELSE SubSeq(path, 1, Len(path) - 1)

\* the path state of the URL parser: dot segments are resolved, every other
\* segment (the empty one included) is appended
RECURSIVE PathState(_, _, _)
PathState(segs, i, acc) ==
  IF i > Len(segs) THEN acc
  ELSE LET seg == segs[i]
           last == (i = Len(segs))
       IN  IF seg = <<".", ".">>
           THEN PathState(segs, i + 1,
                          IF last THEN Append(Shorten(acc), <<>>) ELSE Shorten(acc))
           ELSE IF seg = <<".">>
           THEN PathState(segs, i + 1, IF last THEN Append(acc, <<>>) ELSE acc)
           ELSE PathState(segs, i + 1, Append(acc, seg))

\* path start state followed by the path state, for a special scheme
ParsePath(p) ==
  IF Len(p) > 0 /\ p[1] = "/"
  THEN PathState(SplitSegments(p, 2, <<>>), 1, <<>>)
  ELSE PathState(SplitSegments(p, 1, <<>>), 1, <<>>)

\* the pathname getter: "/" before every segment, from segment i on
RECURSIVE PathnameFrom(_, _)
PathnameFrom(path, i) ==
  IF i > Len(path) THEN <<>>
  ELSE <<"/">> \o path[i] \o PathnameFrom(path, i + 1)

Pathname(path) == PathnameFrom(path, 1)

\* number of leading "/" of s from position i on
RECURSIVE LeadingSlashes(_, _)
LeadingSlashes(s, i) ==
  IF i <= Len(s) /\ s[i] = "/" THEN 1 + LeadingSlashes(s, i + 1) ELSE 0

\* new URL(s): scheme ":" then, the scheme being special, any number of "/",
\* the host, an optional ":" port, and the path.  A string without a scheme
\* or without a host throws (NullUrl).
ParseURL(s) ==
  IF Len(s) < 2 \/ s[1] \notin Schemes \/ s[2] # ":" THEN NullUrl
  ELSE LET h == 3 + LeadingSlashes(s, 3)
       IN  IF h > Len(s) \/ s[h] \notin HostNames THEN NullUrl
           ELSE LET hasColon == (h + 1 <= Len(s) /\ s[h + 1] = ":")
                    hasPort == (hasColon /\ h + 2 <= Len(s) /\ s[h + 2] \in PortNames)
                    p == IF hasPort THEN h + 3 ELSE IF hasColon THEN h + 2 ELSE h + 1
                    rest == SubSeq(s, p, Len(s))
                IN  IF Len(rest) > 0 /\ rest[1] # "/" THEN NullUrl
                    ELSE [ok |-> TRUE,
                          scheme |-> s[1],
                          host |-> s[h],
                          port |-> IF hasPort /\ s[h + 2] # DefaultPort(s[1])
                                   THEN s[h + 2] ELSE NoPort,
                          path |-> ParsePath(rest)]

\* the href getter
Href(u) ==
  <<u.scheme, ":", "/", "/", u.host>>
    \o (IF u.port = NoPort THEN <<>> ELSE <<":", u.port>>)
    \o Pathname(u.path)

\* parsed.protocol = 'https:' (both schemes special): the port is dropped
\* when it is the new scheme's default
SetProtocol(u, scheme) ==
  [u EXCEPT !.scheme = scheme,
            !.port = IF u.port = DefaultPort(scheme) THEN NoPort ELSE u.port]

\* parsed.pathname = v
SetPathname(u, v) == [u EXCEPT !.path = ParsePath(v)]

\* String.prototype.replace(/\/+/g, '/'), from position i on: a "/" that
\* follows a "/" is dropped
RECURSIVE CollapseFrom(_, _)
CollapseFrom(p, i) ==
  IF i > Len(p) THEN <<>>
  ELSE IF i > 1 /\ p[i] = "/" /\ p[i - 1] = "/" THEN CollapseFrom(p, i + 1)
  ELSE <<p[i]>> \o CollapseFrom(p, i + 1)

CollapseSlashes(p) == CollapseFrom(p, 1)

\* replace(/\/\//g, '/'): every pair of slashes replaced once, left to right
RECURSIVE CollapsePairs(_)
CollapsePairs(p) ==
  IF Len(p) <= 1 THEN p
  ELSE IF p[1] = "/" /\ p[2] = "/" THEN <<"/">> \o CollapsePairs(SubSeq(p, 3, Len(p)))
  ELSE <<p[1]>> \o CollapsePairs(Tail(p))

NormalizePath(p) == CollapseSlashes(p)

\* CrawlerService.validateUrl: the parsed URL, or NullUrl for null
validateUrl(url) ==
  LET parsed == ParseURL(url)
  IN  IF ~parsed.ok THEN NullUrl
      ELSE LET secured == IF parsed.scheme = "http"
                          THEN SetProtocol(parsed, "https") ELSE parsed
           IN  SetPathname(secured, NormalizePath(Pathname(secured.path)))

(***************************************************************************)
(* Inputs of validateUrl.                                                  *)
(***************************************************************************)
PathInputs == {<<>>} \cup {<<"/">> \o t : t \in SeqsUpTo(PathChars, MaxPathLen)}
PortInputs == {<<>>, <<":">>} \cup {<<":", p>> : p \in PortNames}
SlashInputs == {<<>>, <<"/", "/">>, <<"/", "/", "/">>}
UrlInputs ==
  {<<sc, ":">> \o sl \o <<h>> \o po \o pa :
      sc \in Schemes, sl \in SlashInputs, h \in {"a"}, po \in PortInputs, pa \in PathInputs}
    \cup {<<"/", "x">>, <<>>, <<"http", ":", "/", "/">>, <<"a", "/", "x">>}

(***************************************************************************)
(* middlewares/rateLimit.js.  Times are in units of one window of the      *)
(* crawler's limiter divided by CrawlerWindowMs.                           *)
(***************************************************************************)
MaxClock == 3
NumCalls == 3
MaxHttp == 2

CrawlerWindowMs == 1
CrawlerMax == 2
StrictWindowMs == 2
StrictMax == 1
\* defaultConfig.windowMs (15 min) and the `api` preset (60 min, max 1000),
\* in the same order: crawler < strict < default < api
DefaultWindowMs == 3
ApiWindowMs == 4
ApiMax == 2
\* the clock of the presets runs past the window of `api`
MaxPresetClock == 4

Undefined == "undefined"

\* this.defaultConfig merged with the config of the factory call
CrawlerOptions ==
  [windowMs |-> CrawlerWindowMs, max |-> CrawlerMax,
   skipSuccessfulRequests |-> FALSE, skipFailedRequests |-> FALSE]
StrictOptions ==
  [windowMs |-> StrictWindowMs, max |-> StrictMax,
   skipSuccessfulRequests |-> FALSE, skipFailedRequests |-> FALSE]
ApiOptions ==
  [windowMs |-> ApiWindowMs, max |-> ApiMax,
   skipSuccessfulRequests |-> FALSE, skipFailedRequests |-> FALSE]
\* module.exports.strict and module.exports.api
Presets == {"strict", "api"}
OptionsOf(preset) == IF preset = "strict" THEN StrictOptions ELSE ApiOptions

\* the request and response objects a limiter is called with: the crawler
\* passes two empty objects, Express a request with an ip and a response
EmptyReq == [ip |-> Undefined, headers |-> FALSE, forwarded |-> Undefined, method |-> Undefined]
EmptyRes == [setHeader |-> FALSE]
Clients == {"c1"}
HttpReqs ==
  {[ip |-> "c1", headers |-> TRUE, forwarded |-> Undefined, method |-> "GET"],
   [ip |-> Undefined, headers |-> TRUE, forwarded |-> "c1", method |-> "GET"]}
HttpRes == [setHeader |-> TRUE]

\* getClientIdentifier: "throw" stands for the TypeError of reading a
\* property of the undefined req.headers (or req.connection)
getClientIdentifier(req) ==
  IF req.ip # Undefined THEN req.ip
  ELSE IF ~req.headers THEN "throw"
  ELSE IF req.forwarded # Undefined THEN req.forwarded
  ELSE "throw"

\* shouldSkip reads the identifier `res`, which is not bound in its scope:
\* it throws as soon as one of the two flags makes it evaluate res.statusCode
shouldSkipThrows(req, options) ==
  \/ options.skipSuccessfulRequests /\ req.method = "GET"
  \/ options.skipFailedRequests

NoRecord == [count |-> 0 - 1, startTime |-> 0 - 1]

\* a limiter whose catch answers with the error instead of calling next()
LimiterCatchRejects(options, req, res, requests, currentTime) ==
  LET clientId == getClientIdentifier(req)
      passed(reqs) == [next |-> TRUE, rejected |-> FALSE, requests |-> reqs]
      failed == [next |-> FALSE, rejected |-> TRUE, requests |-> requests]
  IN  IF clientId = "throw" \/ shouldSkipThrows(req, options)
      THEN failed
      ELSE LET clientRecord == IF requests[clientId] # NoRecord
                               THEN requests[clientId]
                               ELSE [count |-> 0, startTime |-> currentTime]
           IN  IF currentTime - clientRecord.startTime > options.windowMs
               THEN passed([requests EXCEPT
                              ![clientId] = [count |-> 1, startTime |-> currentTime]])
               ELSE IF clientRecord.count >= options.max \/ ~res.setHeader
               THEN failed
               ELSE passed([requests EXCEPT
                              ![clientId] = [clientRecord EXCEPT !.count = @ + 1]])

\* the middleware returned by createLimiter, called at time currentTime with
\* the map `requests`: whether next() was called, whether a 429 response was
\* sent, and the map afterwards
Limiter(options, req, res, requests, currentTime) ==
  LET clientId == getClientIdentifier(req)
      passed(reqs) == [next |-> TRUE, rejected |-> FALSE, requests |-> reqs]
  IN  IF clientId = "throw" \/ shouldSkipThrows(req, options)
      THEN passed(requests)                       \* catch: next()
      ELSE LET clientRecord == IF requests[clientId] # NoRecord
                               THEN requests[clientId]
                               ELSE [count |-> 0, startTime |-> currentTime]
           IN  IF currentTime - clientRecord.startTime > options.windowMs
               THEN passed([requests EXCEPT
                              ![clientId] = [count |-> 1, startTime |-> currentTime]])
               ELSE IF clientRecord.count >= options.max
               THEN IF ~res.setHeader
                    THEN passed(requests)         \* res.setHeader throws; catch: next()
                    ELSE [next |-> FALSE, rejected |-> TRUE, requests |-> requests]
               ELSE \* count++, requests.set, then res.setHeader; a throw of
                    \* res.setHeader is caught and next() is called all the same
                    passed([requests EXCEPT
                              ![clientId] = [clientRecord EXCEPT !.count = @ + 1]])

\* an applyRateLimit whose promise is never resolved
applyRateLimitPending(requests, currentTime) ==
  [next |-> FALSE, rejected |-> FALSE, requests |-> requests]

\* CrawlerService.applyRateLimit: this.limiter({}, {}, () => resolve())
applyRateLimit(requests, currentTime) ==
  Limiter(CrawlerOptions, EmptyReq, EmptyRes, requests, currentTime)

(***************************************************************************)
(* Pages and links.                                                        *)
(***************************************************************************)
MaxLinks == 2
MaxDepthBound == 2
MaxBatch == 3

UrlRoot == <<"https", ":", "/", "/", "a", "/">>
UrlRootHttp == <<"http", ":", "/", "/", "a", "/">>
UrlDoubleSlash == <<"https", ":", "/", "/", "a", "/", "/", "x">>
UrlExternal == <<"https", ":", "/", "/", "b", "/">>
UrlInvalid == <<"/", "x">>
HrefRelative == <<"/", "x">>

\* the href attributes a page may carry, the seeds of a deep crawl and the
\* URLs of a batch
Hrefs == {UrlRootHttp, HrefRelative, UrlExternal}
AnchorLists == SeqsUpTo(Hrefs, MaxLinks)
Seeds == {UrlRoot, UrlRootHttp, UrlDoubleSlash, UrlInvalid}
BatchUrls == {UrlRoot, UrlDoubleSlash, UrlInvalid}

\* new URL(href, baseUrl): an absolute href is parsed on its own, a
\* scheme-relative one takes the scheme of the base, any other is a path
\* resolved against the base, whose own path is "/"
ResolveURL(href, base) ==
  IF Len(href) >= 2 /\ href[1] \in Schemes /\ href[2] = ":" THEN ParseURL(href)
  ELSE IF Len(href) >= 2 /\ href[1] = "/" /\ href[2] = "/"
  THEN ParseURL(<<base.scheme, ":">> \o href)
  ELSE [base EXCEPT !.path = ParsePath(href)]

\* the same with external decided on host and port together
RECURSIVE extractLinksByOrigin(_, _)
extractLinksByOrigin(anchors, parsedUrl) ==
  IF Len(anchors) = 0 THEN <<>>
  ELSE LET href == Head(anchors)
           baseUrl == ParseURL(<<parsedUrl.scheme, ":", "/", "/", parsedUrl.host>>
                                 \o (IF parsedUrl.port = NoPort THEN <<>>
                                     ELSE <<":", parsedUrl.port>>))
           url == IF href = <<>> THEN NullUrl ELSE ResolveURL(href, baseUrl)
           rest == extractLinksByOrigin(Tail(anchors), parsedUrl)
       IN  IF ~url.ok THEN rest
           ELSE <<[url |-> Href(url),
                   external |-> (url.host # parsedUrl.host \/ url.port # parsedUrl.port)]>>
                  \o rest

\* CrawlerService.extractLinks over the href attributes of the anchors of the
\* page, in document order (Undefined: an anchor without href)
RECURSIVE extractLinks(_, _)
extractLinks(anchors, parsedUrl) ==
  IF Len(anchors) = 0 THEN <<>>
  ELSE LET href == Head(anchors)
           baseUrl == ParseURL(<<parsedUrl.scheme, ":", "/", "/", parsedUrl.host>>
                                 \o (IF parsedUrl.port = NoPort THEN <<>>
                                     ELSE <<":", parsedUrl.port>>))
           url == IF href = <<>> THEN NullUrl ELSE ResolveURL(href, baseUrl)
           rest == extractLinks(Tail(anchors), parsedUrl)
       IN  IF ~url.ok THEN rest
           ELSE <<[url |-> Href(url), external |-> (url.host # parsedUrl.host)]>> \o rest

\* the same without the filter on link.external
RECURSIVE InternalEntriesAll(_, _, _)
InternalEntriesAll(links, seen, depth) ==
  IF Len(links) = 0 THEN <<>>
  ELSE LET link == Head(links)
           rest == InternalEntriesAll(Tail(links), seen, depth)
       IN  IF link.url \notin seen
           THEN <<[url |-> link.url, depth |-> depth + 1]>> \o rest
           ELSE rest

\* the entries deepCrawlWebsite pushes for the links of a result
RECURSIVE InternalEntries(_, _, _)
InternalEntries(links, seen, depth) ==
  IF Len(links) = 0 THEN <<>>
  ELSE LET link == Head(links)
           rest == InternalEntries(Tail(links), seen, depth)
       IN  IF ~link.external /\ link.url \notin seen
           THEN <<[url |-> link.url, depth |-> depth + 1]>> \o rest
           ELSE rest

NoEntry == [url |-> <<>>, depth |-> 0]

(***************************************************************************)
(* The website record (models/Website.js) and updateWebsiteData.           *)
(***************************************************************************)
MaxPersist == 2

Technologies == {"nginx", "React"}
WebsiteIds == {"w1", "missing"}

VARIABLES vu, now, requests, calls, grantedAt, http, run, web, log, store, upd,
          other, visit, sh
vars == <<vu, now, requests, calls, grantedAt, http, run, web, log, store, upd,
          other, visit, sh>>

urlVars == <<vu>>
gateVars == <<now, requests, calls, grantedAt, http>>
crawlVars == <<run, web, log>>
persistVars == <<store, upd>>
moreVars == <<other, visit, sh>>

UrlIdle == vu = [in |-> <<>>, stage |-> "off", once |-> <<>>, twice |-> <<>>]
GateIdle ==
  /\ now = 0
  /\ requests = [c \in Clients |-> NoRecord]
  /\ calls = [k \in 1..NumCalls |-> "idle"]
  /\ grantedAt = [k \in 1..NumCalls |-> 0 - 1]
  /\ http = [sent |-> 0, rejected |-> 0]

\* a run of deepCrawlWebsite or batchCrawlWebsites: its locals and its
\* position; `web` is the content (href attributes) of the pages served so
\* far, `log` the sequence of crawlWebsite calls with their outcome.
\* History of the run: `order` the entries in the order they were put in
\* the queue, `taken` the number of entries taken from it, `gated` the
\* number of calls of applyRateLimit, `fetches` of axios.get, `signal`
\* whether the process was sent SIGTERM
NewRun(kind, queue, maxDepth) ==
  [kind |-> kind, pc |-> "loop", maxDepth |-> maxDepth, queue |-> queue,
   visited |-> {}, results |-> <<>>, errors |-> <<>>, cur |-> NoEntry,
   input |-> Len(queue),
   order |-> queue, taken |-> 0, gated |-> 0, fetches |-> 0, signal |-> FALSE]
CrawlIdle ==
  /\ run = [NewRun("off", <<>>, 0) EXCEPT !.pc = "off"]
  /\ web = <<>>
  /\ log = <<>>

\* the stored record w1 and the updateWebsiteData call in progress: its
\* position, its id, the document it loaded
NewRecord(technologies) ==
  [technologies |-> technologies, lastCrawlStatus |-> "success",
   lastCrawledAt |-> 0 - 1, crawlError |-> Undefined]
\* the paths of websiteSchema among the fields above: crawlError is none
SchemaPaths == {"technologies", "lastCrawlStatus", "lastCrawledAt"}
\* the data of a crawl, and the absence of one
NoData == [crawled |-> FALSE, technologies |-> {}]
CrawlData(technologies) == [crawled |-> TRUE, technologies |-> technologies]
\* what a call of updateWebsiteData gave its caller
NoOutcome == [thrown |-> FALSE, crawlData |-> NoData]
\* an update in progress: `data` the result of its crawl, `failedAt` the
\* step that threw, `outcome` what the last call gave its caller
NewUpdate ==
  [pc |-> "idle", id |-> "w1", website |-> NewRecord({}), calls |-> 0,
   data |-> NoData, failedAt |-> "none", outcome |-> NoOutcome]
PersistIdle ==
  /\ store = NewRecord({})
  /\ upd = NewUpdate

\* a second run of deepCrawlWebsite, suspended at an await, with its log
OtherIdle == other = [run |-> [NewRun("off", <<>>, 0) EXCEPT !.pc = "off"], log |-> <<>>]
\* the body of one crawlWebsite call from the response on
NoVisit == [pc |-> "off"]
VisitIdle == visit = NoVisit
\* the invocations of crawl.sh and the files they share
NoShell == [pc |-> "off"]
ShellIdle == sh = NoShell
MoreIdle == OtherIdle /\ VisitIdle /\ ShellIdle

(***************************************************************************)
(* validateUrl applied once and twice.                                     *)
(***************************************************************************)
UrlInit ==
  /\ MoreIdle
  /\ vu \in {[in |-> u, stage |-> "in", once |-> <<>>, twice |-> <<>>] : u \in UrlInputs}
  /\ GateIdle
  /\ CrawlIdle
  /\ PersistIdle

Normalize ==
  /\ vu.stage = "in"
  /\ validateUrl(vu.in).ok
  /\ vu' = [vu EXCEPT !.stage = "once", !.once = Href(validateUrl(vu.in))]
  /\ UNCHANGED <<moreVars, gateVars, crawlVars, persistVars>>

Reject ==
  /\ vu.stage = "in"
  /\ ~validateUrl(vu.in).ok
  /\ vu' = [vu EXCEPT !.stage = "null"]
  /\ UNCHANGED <<moreVars, gateVars, crawlVars, persistVars>>

Renormalize ==
  /\ vu.stage = "once"
  /\ vu' = [vu EXCEPT !.stage = "twice",
                      !.twice = IF validateUrl(vu.once).ok
                                THEN Href(validateUrl(vu.once)) ELSE <<"null">>]
  /\ UNCHANGED <<moreVars, gateVars, crawlVars, persistVars>>

UrlNext == Normalize \/ Reject \/ Renormalize
SpecUrl == UrlInit /\ [][UrlNext]_vars

(***************************************************************************)
(* The rate gate: NumCalls concurrent crawlWebsite calls reaching          *)
(* `await this.applyRateLimit()`, Express requests passing the `strict`    *)
(* preset, and the clock.                                                  *)
(***************************************************************************)
GateInit == UrlIdle /\ GateIdle /\ CrawlIdle /\ PersistIdle /\ MoreIdle

\* the promise executor of applyRateLimit runs the limiter synchronously:
\* the promise is resolved iff the limiter called next().  The calls are
\* numbered in the order they are issued
Acquire(k) ==
  /\ calls[k] = "idle"
  /\ \A j \in 1..(k - 1) : calls[j] # "idle"
  /\ LET r == applyRateLimit(requests, now)
     IN  /\ calls' = [calls EXCEPT ![k] = IF r.next THEN "granted" ELSE "waiting"]
         /\ grantedAt' = [grantedAt EXCEPT ![k] = IF r.next THEN now ELSE @]
         /\ requests' = r.requests
  /\ UNCHANGED <<moreVars, vu, now, http, crawlVars, persistVars>>

\* the continuation of `await this.applyRateLimit()`
Resume(k) ==
  /\ calls[k] = "granted"
  /\ calls' = [calls EXCEPT ![k] = "resumed"]
  /\ UNCHANGED <<moreVars, vu, now, requests, grantedAt, http, crawlVars, persistVars>>

\* an Express request through the `strict` preset
HttpRequest(req) ==
  /\ http.sent < MaxHttp
  /\ LET r == Limiter(StrictOptions, req, HttpRes, requests, now)
     IN  /\ requests' = r.requests
         /\ http' = [sent |-> http.sent + 1,
                     rejected |-> http.rejected + (IF r.rejected THEN 1 ELSE 0)]
  /\ UNCHANGED <<moreVars, vu, now, calls, grantedAt, crawlVars, persistVars>>

Tick ==
  /\ now < MaxClock
  /\ now' = now + 1
  /\ UNCHANGED <<moreVars, vu, requests, calls, grantedAt, http, crawlVars, persistVars>>

GateNext ==
  \/ \E k \in 1..NumCalls : Acquire(k)
  \/ \E k \in 1..NumCalls : Resume(k)
  \/ \E req \in HttpReqs : HttpRequest(req)
  \/ Tick

SpecGate == GateInit /\ [][GateNext]_vars
FairSpecGate ==
  /\ SpecGate
  /\ \A k \in 1..NumCalls : WF_vars(Resume(k))

(***************************************************************************)
(* deepCrawlWebsite and batchCrawlWebsites, each crawlWebsite call split   *)
(* at its two awaits (applyRateLimit, axios.get).                          *)
(***************************************************************************)
CrawlInit ==
  /\ MoreIdle
  /\ UrlIdle
  /\ GateIdle
  /\ PersistIdle
  /\ web = <<>>
  /\ log = <<>>
  /\ \/ \E seed \in Seeds, maxDepth \in 0..MaxDepthBound :
          run = NewRun("deep", <<[url |-> seed, depth |-> 0]>>, maxDepth)
     \/ \E urls \in SeqsUpTo(BatchUrls, MaxBatch) :
          run = NewRun("batch", [i \in 1..Len(urls) |-> [url |-> urls[i], depth |-> 0]], 0)

LogEntry(entry, outcome) ==
  [raw |-> entry.url,
   url |-> IF validateUrl(entry.url).ok THEN Href(validateUrl(entry.url)) ELSE <<>>,
   depth |-> entry.depth, outcome |-> outcome]

\* a catch of batchCrawlWebsites that records the error and leaves the loop
CaughtAbortsBatch(r, entry) ==
  IF r.kind = "batch"
  THEN [r EXCEPT !.pc = "done", !.cur = NoEntry,
                 !.errors = Append(@, [url |-> entry.url, error |-> "crawl failed"])]
  ELSE [r EXCEPT !.pc = "loop", !.cur = NoEntry]

\* a deepCrawlWebsite without the try/catch in its loop: the run ends
CaughtAbortsDeep(r, entry) ==
  IF r.kind = "batch"
  THEN [r EXCEPT !.pc = "loop", !.cur = NoEntry,
                 !.errors = Append(@, [url |-> entry.url, error |-> "crawl failed"])]
  ELSE [r EXCEPT !.pc = "done", !.cur = NoEntry]

\* a catch that puts the failed entry back into the queue
CaughtRequeues(r, entry) ==
  IF r.kind = "batch"
  THEN [r EXCEPT !.pc = "loop", !.cur = NoEntry,
                 !.errors = Append(@, [url |-> entry.url, error |-> "crawl failed"])]
  ELSE [r EXCEPT !.pc = "loop", !.cur = NoEntry,
                 !.queue = Append(@, entry), !.order = Append(@, entry)]

\* a catch of batchCrawlWebsites that only logs
CaughtSwallows(r, entry) == [r EXCEPT !.pc = "loop", !.cur = NoEntry]

\* the catch of the loop body: deepCrawlWebsite logs, batchCrawlWebsites
\* pushes {url, error}
Caught(r, entry) ==
  IF r.kind = "batch"
  THEN [r EXCEPT !.pc = "loop", !.cur = NoEntry,
                 !.errors = Append(@, [url |-> entry.url, error |-> "crawl failed"])]
  ELSE [r EXCEPT !.pc = "loop", !.cur = NoEntry]

\* the depth test off by one
DeepSkipTestLate(entry, r) == entry.depth > r.maxDepth + 1 \/ entry.url \in r.visited

\* deepCrawlWebsite: `if (depth > maxDepth || visited.has(url)) continue`
DeepSkipTest(entry, r) == entry.depth > r.maxDepth \/ entry.url \in r.visited

\* a crawlWebsite that validates the URL only after the rate gate
UrlAcceptedLate(url) == TRUE

\* crawlWebsite: `if (!parsedUrl) throw`, before applyRateLimit is awaited
UrlAccepted(url) == validateUrl(url).ok

DeepSkip ==
  /\ run.kind = "deep" /\ run.pc = "loop" /\ Len(run.queue) > 0
  /\ DeepSkipTest(Head(run.queue), run)
  /\ run' = [run EXCEPT !.queue = Tail(@), !.taken = @ + 1]
  /\ UNCHANGED <<moreVars, urlVars, gateVars, web, log, persistVars>>

\* queue.shift() (or the next url of the batch) and the entry of
\* crawlWebsite(url) up to `await this.applyRateLimit()`
BeginVisit ==
  /\ run.kind \in {"deep", "batch"} /\ run.pc = "loop" /\ Len(run.queue) > 0
  /\ run.kind = "deep" => ~DeepSkipTest(Head(run.queue), run)
  /\ UrlAccepted(Head(run.queue).url)
  /\ run' = [run EXCEPT !.queue = Tail(@), !.cur = Head(run.queue), !.pc = "gate",
                        !.taken = @ + 1]
  /\ UNCHANGED <<moreVars, urlVars, gateVars, web, log, persistVars>>

\* crawlWebsite throws on a URL validateUrl rejects
InvalidUrl ==
  /\ run.kind \in {"deep", "batch"} /\ run.pc = "loop" /\ Len(run.queue) > 0
  /\ run.kind = "deep" => ~DeepSkipTest(Head(run.queue), run)
  /\ ~UrlAccepted(Head(run.queue).url)
  /\ run' = Caught([run EXCEPT !.queue = Tail(@), !.taken = @ + 1], Head(run.queue))
  /\ log' = Append(log, LogEntry(Head(run.queue), "invalid"))
  /\ UNCHANGED <<moreVars, urlVars, gateVars, web, persistVars>>

\* await this.applyRateLimit(): the call resumes iff the limiter called next()
Gate ==
  /\ run.pc = "gate"
  /\ LET r == applyRateLimit(requests, now)
     IN  /\ requests' = r.requests
         /\ run' = [run EXCEPT !.pc = IF r.next THEN "fetch" ELSE "stuck",
                               !.gated = @ + 1,
                               !.fetches = IF r.next THEN @ + 1 ELSE @]
  /\ UNCHANGED <<moreVars, urlVars, now, calls, grantedAt, http, web, log, persistVars>>

\* a loop body that leaves out a result whose URL was returned before
VisitedOnceOnly(r, entry, result) ==
  IF r.kind = "batch"
  THEN [r EXCEPT !.pc = "loop", !.cur = NoEntry,
                 !.results = IF \E i \in DOMAIN @ : @[i].url = result.url THEN @
                             ELSE Append(@, [url |-> result.url])]
  ELSE LET seen == r.visited \cup {entry.url}
           found == InternalEntries(result.links, seen, entry.depth)
       IN  [r EXCEPT !.pc = "loop", !.cur = NoEntry,
                     !.visited = seen,
                     !.results = Append(@, [url |-> result.url]),
                     !.queue = @ \o found,
                     !.order = @ \o found]

\* a loop body that puts the links at the front of the queue (unshift)
VisitedDepthFirst(r, entry, result) ==
  IF r.kind = "batch"
  THEN [r EXCEPT !.pc = "loop", !.cur = NoEntry,
                 !.results = Append(@, [url |-> result.url])]
  ELSE LET seen == r.visited \cup {entry.url}
           found == InternalEntries(result.links, seen, entry.depth)
       IN  [r EXCEPT !.pc = "loop", !.cur = NoEntry,
                     !.visited = seen,
                     !.results = Append(@, [url |-> result.url]),
                     !.queue = found \o @,
                     !.order = @ \o found]

\* what the loop body does with the result of crawlWebsite
Visited(r, entry, result) ==
  IF r.kind = "batch"
  THEN [r EXCEPT !.pc = "loop", !.cur = NoEntry,
                 !.results = Append(@, [url |-> result.url])]
  ELSE LET seen == r.visited \cup {entry.url}
           found == InternalEntries(result.links, seen, entry.depth)
       IN  [r EXCEPT !.pc = "loop", !.cur = NoEntry,
                     !.visited = seen,
                     !.results = Append(@, [url |-> result.url]),
                     !.queue = @ \o found,
                     !.order = @ \o found]

\* axios.get(parsedUrl.href) answers; the page is parsed and the result
\* returned to the loop.  The anchors of a page are fixed when it is first
\* served to a deep crawl; batchCrawlWebsites never reads the links of a
\* result, which are left out there
FetchOk ==
  /\ run.pc = "fetch"
  /\ LET parsedUrl == validateUrl(run.cur.url)
         page == Href(parsedUrl)
     IN  /\ IF page \in DOMAIN web \/ run.kind = "batch"
            THEN web' = web
            ELSE \E anchors \in AnchorLists : web' = web @@ (page :> anchors)
         /\ run' = Visited(run, run.cur,
                           [url |-> page,
                            links |-> IF run.kind = "batch" THEN <<>>
                                      ELSE extractLinks(web'[page], parsedUrl)])
         /\ log' = Append(log, LogEntry(run.cur, "ok"))
  /\ UNCHANGED <<moreVars, urlVars, gateVars, persistVars>>

\* a crawlWebsite that issues the request again when it fails
FetchFailedRetries(r) == [r EXCEPT !.pc = "fetch", !.fetches = @ + 1]

\* the catch of crawlWebsite: logs and throws a new Error to the loop
FetchFailed(r) == Caught(r, r.cur)

\* axios.get rejects (timeout, connection failure, too many redirects):
\* crawlWebsite rethrows
FetchFail ==
  /\ run.pc = "fetch"
  /\ run' = FetchFailed(run)
  /\ log' = Append(log, LogEntry(run.cur, "fail"))
  /\ UNCHANGED <<moreVars, urlVars, gateVars, web, persistVars>>

\* a process that ignores the signal
SignalIgnored(r) == [r EXCEPT !.signal = TRUE]

\* the node process has no handler for SIGTERM: it ends where it is
SignalKills(r) == [r EXCEPT !.signal = TRUE, !.pc = "killed"]

\* the monitor of crawl.sh stops the crawler (pkill -P $$) when the maximal
\* runtime is reached or the disk is full
Kill ==
  /\ run.pc \in {"loop", "gate", "fetch"} /\ ~run.signal
  /\ run' = SignalKills(run)
  /\ UNCHANGED <<moreVars, urlVars, gateVars, web, log, persistVars>>

\* the loop ends: `return results` / `return { success, failed }`
Return ==
  /\ run.kind \in {"deep", "batch"} /\ run.pc = "loop" /\ Len(run.queue) = 0
  /\ run' = [run EXCEPT !.pc = "done"]
  /\ UNCHANGED <<moreVars, urlVars, gateVars, web, log, persistVars>>

CrawlStep ==
  DeepSkip \/ BeginVisit \/ InvalidUrl \/ Gate \/ FetchOk \/ FetchFail \/ Return

CrawlNext == CrawlStep \/ Kill

SpecCrawl == CrawlInit /\ [][CrawlNext]_vars
\* a visit is to be started or its request is in flight: the enabling
\* condition of VisitStep
VisitPending ==
  \/ /\ run.pc = "loop" /\ Len(run.queue) > 0
     /\ run.kind = "deep" => ~DeepSkipTest(Head(run.queue), run)
  \/ run.pc = "fetch"
VisitStep == BeginVisit \/ InvalidUrl \/ FetchOk \/ FetchFail
\* weak fairness of VisitStep, its enabling condition written out
VisitFairness == []<>(~VisitPending) \/ []<><<VisitStep>>_vars
\* the event loop runs the loop of the crawl on, the promise of the rate
\* gate is resolved, and every request is settled by a response, an error
\* or the timeout given to axios
FairSpecCrawl ==
  SpecCrawl /\ WF_vars(DeepSkip) /\ WF_vars(Gate) /\ WF_vars(Return) /\ VisitFairness


(***************************************************************************)
(* The presets `strict` and `api` serving Express requests, and the        *)
(* cleanup of startCleanup.  Both presets are made by the one RateLimiter  *)
(* of the module and so work on its one map `requests`.  calls[k] is the   *)
(* preset that served the k-th request, grantedAt[k] the time it called    *)
(* next(), or -1 when it answered 429.                                     *)
(***************************************************************************)
PresetInit == UrlIdle /\ GateIdle /\ CrawlIdle /\ PersistIdle /\ MoreIdle

PresetRequest(k, preset, req) ==
  /\ calls[k] = "idle"
  /\ \A j \in 1..(k - 1) : calls[j] # "idle"
  /\ LET r == Limiter(OptionsOf(preset), req, HttpRes, requests, now)
     IN  /\ calls' = [calls EXCEPT ![k] = preset]
         /\ grantedAt' = [grantedAt EXCEPT ![k] = IF r.next THEN now ELSE 0 - 1]
         /\ requests' = r.requests
  /\ UNCHANGED <<moreVars, vu, now, http, crawlVars, persistVars>>

\* the callback of setInterval in startCleanup: a record older than
\* defaultConfig.windowMs is deleted, whatever limiter counts in it
Cleanup ==
  /\ requests' = [c \in Clients |->
                    IF requests[c] # NoRecord /\ now - requests[c].startTime > DefaultWindowMs
                    THEN NoRecord ELSE requests[c]]
  /\ UNCHANGED <<moreVars, vu, now, calls, grantedAt, http, crawlVars, persistVars>>

PresetTick ==
  /\ now < MaxPresetClock
  /\ now' = now + 1
  /\ UNCHANGED <<moreVars, vu, requests, calls, grantedAt, http, crawlVars, persistVars>>

PresetNext ==
  \/ \E k \in 1..NumCalls, preset \in Presets, req \in HttpReqs : PresetRequest(k, preset, req)
  \/ Cleanup
  \/ PresetTick

SpecPresets == PresetInit /\ [][PresetNext]_vars

(***************************************************************************)
(* Two runs of deepCrawlWebsite on one CrawlerService, interleaved at      *)
(* their awaits: `run` is the one that executes, `other` the suspended one.*)
(***************************************************************************)
\* the number of anchors of a page of the static graph
PairLinks == 1

UrlPage == <<"https", ":", "/", "/", "a", "/", "x">>
PairSeeds == {UrlRoot, UrlPage}

\* the page graph is static: the anchors of both pages of the site are fixed
PairInit ==
  /\ UrlIdle /\ GateIdle /\ PersistIdle /\ VisitIdle /\ ShellIdle
  /\ web \in [PairSeeds -> SeqsUpTo(Hrefs, PairLinks)]
  /\ log = <<>>
  /\ \E first, second \in PairSeeds \cup {UrlInvalid}, maxDepth \in 1..MaxDepthBound :
       /\ run = NewRun("deep", <<[url |-> first, depth |-> 0]>>, maxDepth)
       /\ other = [run |-> NewRun("deep", <<[url |-> second, depth |-> 0]>>, maxDepth),
                   log |-> <<>>]

\* a resumed run that finds the visited set of the run that was executing
ResumedSharingVisited(suspended, active) ==
  [suspended.run EXCEPT !.visited = @ \cup active.visited]

\* visited, results and queue are locals of the call: a run is resumed with
\* its own
Resumed(suspended, active) == suspended.run

\* the run that executes reaches an await (or returns) and the event loop
\* goes on with the other one
Switch ==
  /\ run.pc \in {"gate", "fetch", "done"}
  /\ other.run.pc \in {"loop", "gate", "fetch"}
  /\ run' = Resumed(other, run)
  /\ log' = other.log
  /\ other' = [run |-> run, log |-> log]
  /\ UNCHANGED <<urlVars, gateVars, web, persistVars, visit, sh>>

PairNext ==
  DeepSkip \/ BeginVisit \/ InvalidUrl \/ Gate \/ FetchOk \/ FetchFail \/ Return \/ Switch

SpecPair == PairInit /\ [][PairNext]_vars

\* deepCrawlWebsite run alone on the page graph `web`, its k-th visit having
\* the k-th of the given outcomes: the results, and the number of outcomes
\* asked for
RECURSIVE SoloCrawl(_, _, _, _, _, _)
SoloCrawl(queue, visited, results, maxDepth, outcomes, k) ==
  IF Len(queue) = 0 THEN [results |-> results, visits |-> k - 1]
  ELSE LET entry == Head(queue)
           rest == Tail(queue)
       IN  IF DeepSkipTest(entry, [maxDepth |-> maxDepth, visited |-> visited])
           THEN SoloCrawl(rest, visited, results, maxDepth, outcomes, k)
           ELSE IF k > Len(outcomes)
           THEN [results |-> results, visits |-> k]
           ELSE IF outcomes[k].outcome # "ok"
           THEN SoloCrawl(rest, visited, results, maxDepth, outcomes, k + 1)
           ELSE LET parsedUrl == validateUrl(entry.url)
                    page == Href(parsedUrl)
                    seen == visited \cup {entry.url}
                    found == InternalEntries(extractLinks(web[page], parsedUrl),
                                             seen, entry.depth)
                IN  SoloCrawl(rest \o found, seen, Append(results, [url |-> page]),
                              maxDepth, outcomes, k + 1)

\* the outcome of a finished run r with log l had it run alone
Alone(r, l) == SoloCrawl(<<r.order[1]>>, {}, <<>>, r.maxDepth, l, 1)

(***************************************************************************)
(* updateWebsiteData on the record w1 (or on an id without record), split  *)
(* at its awaits, and the record's own updateCrawlStatus.                  *)
(***************************************************************************)
PersistInit ==
  /\ MoreIdle
  /\ UrlIdle
  /\ GateIdle
  /\ CrawlIdle
  /\ \E technologies \in SUBSET Technologies : store = NewRecord(technologies)
  /\ upd = NewUpdate

\* Website.findById(websiteId); a missing record throws into the catch
FindById(id) ==
  /\ upd.pc = "idle" /\ upd.calls < MaxPersist
  /\ upd' = [upd EXCEPT !.calls = @ + 1, !.id = id,
                        !.pc = IF id = "w1" THEN "crawl" ELSE "catch",
                        !.failedAt = IF id = "w1" THEN "none" ELSE "lookup",
                        !.data = NoData, !.outcome = NoOutcome,
                        !.website = store]
  /\ UNCHANGED <<moreVars, urlVars, gateVars, crawlVars, store>>

\* the assignments of updateWebsiteData after a successful crawl
AssignCrawlData(website, data, time) ==
  [website EXCEPT !.technologies = data.technologies,
                  !.lastCrawledAt = time,
                  !.lastCrawlStatus = "success"]

\* crawlWebsite(website.domain) returns data with the technologies detected
CrawlSucceeds(technologies) ==
  /\ upd.pc = "crawl"
  /\ upd' = [upd EXCEPT !.pc = "save",
                        !.data = CrawlData(technologies),
                        !.website = AssignCrawlData(@, CrawlData(technologies), now)]
  /\ UNCHANGED <<moreVars, urlVars, gateVars, crawlVars, store>>

CrawlFails ==
  /\ upd.pc = "crawl"
  /\ upd' = [upd EXCEPT !.pc = "catch", !.failedAt = "crawl"]
  /\ UNCHANGED <<moreVars, urlVars, gateVars, crawlVars, store>>

\* return { website: website.toJSON(), crawlData: data }
Returned(data) == [thrown |-> FALSE, crawlData |-> data]

\* await website.save()
SaveOk ==
  /\ upd.pc = "save"
  /\ store' = upd.website
  /\ upd' = [upd EXCEPT !.pc = "idle", !.outcome = Returned(upd.data)]
  /\ UNCHANGED <<moreVars, urlVars, gateVars, crawlVars>>

SaveFails ==
  /\ upd.pc = "save"
  /\ upd' = [upd EXCEPT !.pc = "catch", !.failedAt = "save"]
  /\ UNCHANGED <<moreVars, urlVars, gateVars, crawlVars, store>>

\* Model.findByIdAndUpdate(id, update) under the strict mode of the schema:
\* a path of the update the schema does not have is dropped
StrictUpdate(doc, update) ==
  [path \in DOMAIN doc |->
     IF path \in DOMAIN update /\ path \in SchemaPaths THEN update[path] ELSE doc[path]]

\* a catch that logs the error and returns nothing
Swallowed(data) == [thrown |-> FALSE, crawlData |-> NoData]

\* `throw error`: the caller gets the error alone
Rethrown(data) == [thrown |-> TRUE, crawlData |-> NoData]

\* the catch: Website.findByIdAndUpdate(websiteId, {lastCrawledAt,
\* lastCrawlStatus: 'failed', crawlError}), then the error is rethrown; the
\* update names no technologies
CatchUpdate ==
  /\ upd.pc = "catch"
  /\ store' = IF upd.id = "w1"
              THEN StrictUpdate(store, [lastCrawledAt |-> now,
                                        lastCrawlStatus |-> "failed",
                                        crawlError |-> upd.failedAt])
              ELSE store
  /\ upd' = [upd EXCEPT !.pc = "idle", !.outcome = Rethrown(upd.data)]
  /\ UNCHANGED <<moreVars, urlVars, gateVars, crawlVars>>

\* websiteSchema.methods.updateCrawlStatus(status, meta) on the stored record
updateCrawlStatus(status, meta) ==
  /\ upd.pc = "idle" /\ upd.calls < MaxPersist
  /\ store' = [store EXCEPT !.lastCrawledAt = now,
                            !.lastCrawlStatus = status,
                            !.technologies = @ \cup meta]
  /\ upd' = [upd EXCEPT !.calls = @ + 1]
  /\ UNCHANGED <<moreVars, urlVars, gateVars, crawlVars>>

PersistNext ==
  \/ \E id \in WebsiteIds : FindById(id)
  \/ \E technologies \in SUBSET Technologies : CrawlSucceeds(technologies)
  \/ CrawlFails
  \/ SaveOk
  \/ SaveFails
  \/ CatchUpdate
  \/ \E status \in {"success", "failed", "partial"}, meta \in SUBSET Technologies :
       updateCrawlStatus(status, meta)
  \/ Tick

SpecPersist == PersistInit /\ [][PersistNext]_vars

(***************************************************************************)
(* crawlWebsite after the response arrived: the body is parsed, then the   *)
(* metadata, the technologies and the links are extracted from it.         *)
(***************************************************************************)
MaxScripts == 2
MaxAnchors == 2

MetaFields == {"title", "description", "keywords", "canonical", "viewport",
               "ogTitle", "ogDescription", "ogImage"}

\* the text of an element or the value of an attribute
Texts == {<<>>, <<"t">>, <<" ", "t", " ">>}
Missing == [present |-> FALSE, text |-> <<>>]
NoTags == [f \in MetaFields |-> Missing]
\* a page that carries the fields of `present`, each with the same text
TagsWith(present, text) ==
  [f \in MetaFields |-> IF f \in present THEN [present |-> TRUE, text |-> text] ELSE Missing]

\* String.prototype.trim
RECURSIVE Trim(_)
Trim(s) ==
  IF Len(s) > 0 /\ Head(s) = " " THEN Trim(Tail(s))
  ELSE IF Len(s) > 0 /\ s[Len(s)] = " " THEN Trim(SubSeq(s, 1, Len(s) - 1))
  ELSE s

\* CrawlerService.extractMetadata with an absent field left undefined
extractMetadataRaw(tags, parsedUrl) ==
  [f \in MetaFields |->
     IF f = "title" THEN Trim(tags[f].text)
     ELSE IF tags[f].present THEN tags[f].text
     ELSE IF f = "canonical" THEN Href(parsedUrl)
     ELSE <<Undefined>>]

\* CrawlerService.extractMetadata: the trimmed text of <title>, and for each
\* other field the attribute or, the attribute being absent or empty, ''; for
\* canonical parsedUrl.href
extractMetadata(tags, parsedUrl) ==
  [f \in MetaFields |->
     IF f = "title" THEN Trim(tags[f].text)
     ELSE IF tags[f].present /\ tags[f].text # <<>> THEN tags[f].text
     ELSE IF f = "canonical" THEN Href(parsedUrl)
     ELSE <<>>]

\* the values of the Server and X-Powered-By headers, Undefined when the
\* response has no such header
HeaderValues == {Undefined, "nginx", "Express"}

\* the src attributes of the script elements, as the words they are made of
\* (<<>>: a script without src)
ScriptSrcs == {<<>>, <<"x">>, <<"react-dom">>, <<"cdn", "vue">>, <<"react", "vue">>}
ScriptLists == SeqsUpTo(ScriptSrcs, MaxScripts)

\* frameworkSignatures, in the order of its keys: the words its pattern matches
frameworkSignatures ==
  <<[name |-> "React", words |-> {"react", "react-dom"}],
    [name |-> "Vue", words |-> {"vue", "vue-router"}],
    [name |-> "Angular", words |-> {"angular"}],
    [name |-> "jQuery", words |-> {"jquery"}]>>

\* pattern.test(src)
Matches(signature, src) == \E i \in DOMAIN src : src[i] \in signature.words

\* the names pushed for one script, in the order of frameworkSignatures
RECURSIVE FrameworksOf(_, _)
FrameworksOf(src, i) ==
  IF i > Len(frameworkSignatures) THEN <<>>
  ELSE (IF Matches(frameworkSignatures[i], src)
        THEN <<frameworkSignatures[i].name>> ELSE <<>>) \o FrameworksOf(src, i + 1)

\* $('script').each: the names pushed for the scripts, in document order
RECURSIVE ScriptTechnologies(_)
ScriptTechnologies(scripts) ==
  IF Len(scripts) = 0 THEN <<>>
  ELSE FrameworksOf(Head(scripts), 1) \o ScriptTechnologies(Tail(scripts))

\* the array left as pushed
KeepDuplicates(s) == s

\* [...new Set(technologies)]: the first occurrence of each value, in order
RECURSIVE Unique(_)
Unique(s) ==
  IF Len(s) = 0 THEN <<>>
  ELSE LET front == Unique(SubSeq(s, 1, Len(s) - 1))
           last == s[Len(s)]
       IN  IF \E i \in DOMAIN front : front[i] = last THEN front ELSE Append(front, last)

\* CrawlerService.detectTechnologies
detectTechnologies(response) ==
  Unique((IF response.headers.server # Undefined THEN <<response.headers.server>> ELSE <<>>)
           \o (IF response.headers.powered # Undefined
               THEN <<response.headers.powered>> ELSE <<>>)
           \o ScriptTechnologies(response.data.scripts))

\* the href attributes of the anchors of a page (<<>>: an anchor without
\* href), the second of them one new URL() throws on
HrefBroken == <<"https", ":">>
UrlPort == <<"https", ":", "/", "/", "a", ":", "80", "/">>
PageHrefs == {<<>>, HrefBroken, HrefRelative, UrlExternal, UrlPort}
PageAnchors == SeqsUpTo(PageHrefs, MaxAnchors)
PageUrls == {UrlRoot, UrlPort}

\* the response of axios.get: the URL it was asked for, its headers, and its
\* body, which cheerio can parse or not
NewResponse(url, server, powered, ok, tags, scripts, anchors) ==
  [url |-> ParseURL(url),
   headers |-> [server |-> server, powered |-> powered],
   data |-> [ok |-> ok, tags |-> tags, scripts |-> scripts, anchors |-> anchors]]

PlainResponse == NewResponse(UrlRoot, Undefined, Undefined, TRUE, NoTags, <<>>, <<>>)

Responses ==
  {[PlainResponse EXCEPT !.data.tags = tags] :
      tags \in {TagsWith(present, text) : present \in SUBSET MetaFields, text \in Texts}}
  \cup {NewResponse(UrlRoot, server, powered, TRUE, NoTags, scripts, <<>>) :
          server \in HeaderValues, powered \in HeaderValues, scripts \in ScriptLists}
  \cup {NewResponse(url, Undefined, Undefined, ok, NoTags, <<>>, anchors) :
          url \in PageUrls, ok \in BOOLEAN, anchors \in PageAnchors}

NoMetadata == [f \in MetaFields |-> <<>>]

NewVisit(response) ==
  [pc |-> "load", response |-> response, parses |-> 0, metadata |-> NoMetadata,
   technologies |-> <<>>, links |-> <<>>, outcome |-> "none"]

PageInit ==
  /\ UrlIdle /\ GateIdle /\ CrawlIdle /\ PersistIdle /\ OtherIdle /\ ShellIdle
  /\ \E response \in Responses : visit = NewVisit(response)

\* const $ = cheerio.load(response.data)
Load ==
  /\ visit.pc = "load"
  /\ visit' = IF visit.response.data.ok
              THEN [visit EXCEPT !.pc = "metadata", !.parses = @ + 1]
              ELSE [visit EXCEPT !.pc = "catch"]
  /\ UNCHANGED <<urlVars, gateVars, crawlVars, persistVars, other, sh>>

\* const metadata = this.extractMetadata($, parsedUrl)
Extract ==
  /\ visit.pc = "metadata"
  /\ visit' = [visit EXCEPT !.pc = "technologies",
                            !.metadata = extractMetadata(visit.response.data.tags,
                                                         visit.response.url)]
  /\ UNCHANGED <<urlVars, gateVars, crawlVars, persistVars, other, sh>>

\* technologies: this.detectTechnologies(response), which loads
\* response.data again
Detect ==
  /\ visit.pc = "technologies"
  /\ visit' = [visit EXCEPT !.pc = "links", !.parses = @ + 1,
                            !.technologies = detectTechnologies(visit.response)]
  /\ UNCHANGED <<urlVars, gateVars, crawlVars, persistVars, other, sh>>

\* links: this.extractLinks($, parsedUrl)
Collect ==
  /\ visit.pc = "links"
  /\ visit' = [visit EXCEPT !.pc = "return",
                            !.links = extractLinks(visit.response.data.anchors,
                                                   visit.response.url)]
  /\ UNCHANGED <<urlVars, gateVars, crawlVars, persistVars, other, sh>>

\* return { url, metadata, ..., technologies, links, crawledAt }
ReturnResult ==
  /\ visit.pc = "return"
  /\ visit' = [visit EXCEPT !.pc = "done", !.outcome = "returned"]
  /\ UNCHANGED <<urlVars, gateVars, crawlVars, persistVars, other, sh>>

\* catch (error) { ...; throw new Error(...) }
Rethrow ==
  /\ visit.pc = "catch"
  /\ visit' = [visit EXCEPT !.pc = "done", !.outcome = "thrown"]
  /\ UNCHANGED <<urlVars, gateVars, crawlVars, persistVars, other, sh>>

PageNext == Load \/ Extract \/ Detect \/ Collect \/ ReturnResult \/ Rethrow
SpecPage == PageInit /\ [][PageNext]_vars

(***************************************************************************)
(* crawl.sh: concurrent invocations of the script going through            *)
(* check_running, acquire_lock, run_crawler and release_lock.  A file is   *)
(* the set of what it holds, empty when there is no file: PID_FILE a pid,  *)
(* LOCK_FILE the inode its name is linked to.  held[i] is the process      *)
(* that holds the flock on inode i, or Nobody.                             *)
(***************************************************************************)
NumProcs == 2

Procs == 1..NumProcs
\* the pid of a crawler that crashed
StalePid == NumProcs + 1
Nobody == NumProcs + 2
\* the lock file left by the crash, and one inode for each later open
Inodes == 1..(NumProcs + 1)

NewProc == [pc |-> "test", pid |-> {}, fd |-> {}]

LockInit ==
  /\ UrlIdle /\ GateIdle /\ CrawlIdle /\ PersistIdle /\ OtherIdle /\ VisitIdle
  /\ \E crashed \in BOOLEAN :
       sh = [pc |-> "on",
             pidFile |-> IF crashed THEN {StalePid} ELSE {},
             lockFile |-> IF crashed THEN {1} ELSE {},
             created |-> 1,
             held |-> [i \in Inodes |-> Nobody],
             proc |-> [p \in Procs |-> NewProc]]

\* ps -p "$pid": the process exists
Alive(pid) == pid \in Procs /\ sh.proc[pid].pc # "exited"

\* the process ends: its descriptors are closed, which gives up its flock
Exit(p, s) ==
  [s EXCEPT !.proc[p] = [pc |-> "exited", pid |-> {}, fd |-> {}],
            !.held = [i \in Inodes |-> IF @[i] = p THEN Nobody ELSE @[i]]]

Rest == <<urlVars, gateVars, crawlVars, persistVars, other, visit>>

\* check_running: [ -f "$PID_FILE" ]
CheckTest(p) ==
  /\ sh.proc[p].pc = "test"
  /\ sh' = [sh EXCEPT !.proc[p].pc = IF sh.pidFile # {} THEN "cat" ELSE "open"]
  /\ UNCHANGED Rest

\* local pid=$(cat "$PID_FILE"): empty when the file is gone by now
CheckCat(p) ==
  /\ sh.proc[p].pc = "cat"
  /\ sh' = [sh EXCEPT !.proc[p].pc = "ps", !.proc[p].pid = sh.pidFile]
  /\ UNCHANGED Rest

\* if ps -p "$pid": exit 1, else go on to remove the files
CheckPs(p) ==
  /\ sh.proc[p].pc = "ps"
  /\ sh' = IF \E pid \in sh.proc[p].pid : Alive(pid)
            THEN Exit(p, sh)
            ELSE [sh EXCEPT !.proc[p].pc = "rmpid"]
  /\ UNCHANGED Rest

\* rm -f "$PID_FILE"
CheckRmPid(p) ==
  /\ sh.proc[p].pc = "rmpid"
  /\ sh' = [sh EXCEPT !.proc[p].pc = "rmlock", !.pidFile = {}]
  /\ UNCHANGED Rest

\* rm -f "$LOCK_FILE"
CheckRmLock(p) ==
  /\ sh.proc[p].pc = "rmlock"
  /\ sh' = [sh EXCEPT !.proc[p].pc = "open", !.lockFile = {}]
  /\ UNCHANGED Rest

\* acquire_lock: exec 200>"$LOCK_FILE" opens the file, creating it when
\* there is none
AcquireOpen(p) ==
  /\ sh.proc[p].pc = "open"
  /\ sh' = IF sh.lockFile # {}
            THEN [sh EXCEPT !.proc[p].pc = "flock", !.proc[p].fd = sh.lockFile]
            ELSE [sh EXCEPT !.proc[p].pc = "flock", !.proc[p].fd = {sh.created + 1},
                            !.lockFile = {sh.created + 1}, !.created = @ + 1]
  /\ UNCHANGED Rest

\* flock -n 200 || exit 1
AcquireFlock(p) ==
  /\ sh.proc[p].pc = "flock"
  /\ sh' = IF \A i \in sh.proc[p].fd : sh.held[i] = Nobody
            THEN [sh EXCEPT !.proc[p].pc = "writepid",
                            !.held = [i \in Inodes |-> IF i \in sh.proc[p].fd THEN p ELSE @[i]]]
            ELSE Exit(p, sh)
  /\ UNCHANGED Rest

\* echo $$ > "$PID_FILE"; main goes on to run_crawler
AcquireWritePid(p) ==
  /\ sh.proc[p].pc = "writepid"
  /\ sh' = [sh EXCEPT !.proc[p].pc = "run", !.pidFile = {p}]
  /\ UNCHANGED Rest

\* run_crawler: node ends with exit code 0 (or the script is sent SIGINT or
\* SIGTERM): main goes on to cleanup
CrawlerEnds(p) ==
  /\ sh.proc[p].pc = "run"
  /\ sh' = [sh EXCEPT !.proc[p].pc = "relpid"]
  /\ UNCHANGED Rest

\* run_crawler: node fails and the script exits at once (set -e), leaving
\* both files
CrawlerFails(p) ==
  /\ sh.proc[p].pc = "run"
  /\ sh' = Exit(p, sh)
  /\ UNCHANGED Rest

\* release_lock: rm -f "$PID_FILE"
ReleaseRmPid(p) ==
  /\ sh.proc[p].pc = "relpid"
  /\ sh' = [sh EXCEPT !.proc[p].pc = "rellock", !.pidFile = {}]
  /\ UNCHANGED Rest

\* rm -f "$LOCK_FILE"
ReleaseRmLock(p) ==
  /\ sh.proc[p].pc = "rellock"
  /\ sh' = [sh EXCEPT !.proc[p].pc = "close", !.lockFile = {}]
  /\ UNCHANGED Rest

\* exec 200>&- and the exit 0 of cleanup
ReleaseClose(p) ==
  /\ sh.proc[p].pc = "close"
  /\ sh' = Exit(p, sh)
  /\ UNCHANGED Rest

LockNext ==
  \E p \in Procs :
     \/ CheckTest(p) \/ CheckCat(p) \/ CheckPs(p) \/ CheckRmPid(p) \/ CheckRmLock(p)
     \/ AcquireOpen(p) \/ AcquireFlock(p) \/ AcquireWritePid(p)
     \/ CrawlerEnds(p) \/ CrawlerFails(p)
     \/ ReleaseRmPid(p) \/ ReleaseRmLock(p) \/ ReleaseClose(p)
SpecLock == LockInit /\ [][LockNext]_vars

\* the value returned: deepCrawlWebsite returns the array of results,
\* batchCrawlWebsites { success: results, failed: errors }
ReturnedResults(r) == r.results
ReturnedFailures(r) == IF r.kind = "batch" THEN r.errors ELSE <<>>

(***************************************************************************)
(* Properties.                                                             *)
(***************************************************************************)
IsFetch(e) == e.outcome \in {"ok", "fail"}
IsOk(e) == e.outcome = "ok"
IsFailure(e) == e.outcome # "ok"
OkLog == SelectSeq(log, IsOk)
FailLog == SelectSeq(log, IsFailure)
Deep == run.kind = "deep"
Batch == run.kind = "batch"
Done == run.pc = "done"

\* C1: in a deepCrawlWebsite run axios.get is invoked at most once per
\* normalized URL
C1_VisitedOnce ==
  Deep => \A i, j \in DOMAIN log :
            (i # j /\ IsFetch(log[i]) /\ IsFetch(log[j])) => log[i].url # log[j].url

\* C2: every page fetched in a deepCrawlWebsite run, and so every entry of
\* the results, was dequeued with depth <= maxDepth
C2_DepthBound ==
  Deep => /\ \A i \in DOMAIN log : log[i].depth <= run.maxDepth
          /\ run.pc \in {"gate", "fetch"} => run.cur.depth <= run.maxDepth
          /\ Len(run.results) = Len(OkLog)
\* an entry deeper than maxDepth is at the head of the frontier of a run
\* that fetched a page at depth maxDepth
C2_Witness ==
  /\ Deep /\ run.pc = "loop" /\ Len(run.queue) > 0
  /\ Head(run.queue).depth > run.maxDepth
  /\ \E i \in DOMAIN log : IsOk(log[i]) /\ log[i].depth = run.maxDepth

\* C3: a batch of N URLs of which exactly one fails returns N-1 entries in
\* success and one entry in failed naming that URL, every URL of the batch
\* having been crawled
C3_PartialFailure ==
  (Batch /\ Done) =>
     /\ Len(log) = run.input
     /\ \A i \in DOMAIN log :
          (IsFailure(log[i]) /\ \A j \in DOMAIN log : IsFailure(log[j]) => j = i) =>
             /\ Len(ReturnedResults(run)) = run.input - 1
             /\ Len(ReturnedFailures(run)) = 1
             /\ ReturnedFailures(run)[1].url = log[i].raw
\* a batch of three returned after its first or second URL alone failed
C3_Witness ==
  /\ Batch /\ Done /\ run.input = 3 /\ Len(FailLog) = 1
  /\ \E i \in 1..2 : IsFailure(log[i])
  /\ IsOk(log[3])

\* C4: the technologies stored in the website record after a persist
\* operation are a superset of those stored before it
C4_TechnologyMonotone ==
  [][store.technologies \subseteq store'.technologies]_vars

\* C8: every URL in the visited set of a deep crawl is in normalized form
\* (the href of validateUrl of itself)
C8_NormalizedIdentity ==
  Deep => \A u \in run.visited : validateUrl(u).ok /\ Href(validateUrl(u)) = u

\* C9: a failed visit in deepCrawlWebsite leaves the run in its loop with
\* the frontier as it was, enqueues nothing and adds no result; the returned
\* results are the pages whose visit succeeded, in order
C9_FailureContinues ==
  /\ [][(Deep /\ Len(log') > Len(log) /\ IsFailure(log'[Len(log')])) =>
          /\ run'.pc = "loop"
          /\ run'.queue = (IF run.pc = "fetch" THEN run.queue ELSE Tail(run.queue))
          /\ run'.results = run.results
          /\ run'.visited = run.visited]_vars
  /\ []((Deep /\ Done) =>
          ReturnedResults(run) = [i \in 1..Len(OkLog) |-> [url |-> OkLog[i].url]])
\* a deep crawl returned after a visit succeeded, a later one failed and a
\* still later one succeeded
C9_Witness ==
  /\ Deep /\ Done
  /\ \E i, j, k \in DOMAIN log :
       i < j /\ j < k /\ IsOk(log[i]) /\ log[j].outcome = "fail" /\ IsOk(log[k])

Killed == run.pc = "killed"
Ended == run.pc \in {"done", "killed"}
InFlight == IF run.pc \in {"gate", "fetch"} THEN 1 ELSE 0
HostOf(u) == ParseURL(u).host
Seed == run.order[1].url
LinksOf(page) == extractLinks(web[page], validateUrl(page))

C13_FailureRecorded ==
  [][(upd.pc = "catch" /\ upd'.pc = "idle" /\ upd.id = "w1") =>
       /\ store'.lastCrawlStatus = "failed"
       /\ store'.lastCrawledAt = now
       /\ store'.crawlError = upd.failedAt]_vars

\* C14 as stated: when the crawl of updateWebsiteData succeeded and the save
\* failed, the caller gets the failure and the data of the crawl
C14_NoWorkLost ==
  (upd.pc = "idle" /\ upd.failedAt = "save") =>
     /\ upd.outcome.thrown
     /\ upd.outcome.crawlData = upd.data
\* C14 amended: when the crawl of updateWebsiteData succeeded and the save
\* failed, the error is thrown to the caller and the data of the crawl is
\* not handed over; the data is returned only by a call whose save succeeded
C14_FailurePropagated ==
  /\ (upd.pc = "idle" /\ upd.failedAt = "save") =>
        /\ upd.data.crawled
        /\ upd.outcome.thrown
        /\ upd.outcome.crawlData = NoData
  /\ (upd.pc = "idle" /\ upd.failedAt # "none") => upd.outcome.thrown
  /\ (upd.pc = "idle" /\ upd.outcome.crawlData # NoData) =>
        /\ upd.failedAt = "none" /\ ~upd.outcome.thrown
        /\ upd.outcome.crawlData = upd.data
\* a call ended whose crawl detected a technology and whose save failed
C14_Witness ==
  /\ upd.pc = "idle" /\ upd.failedAt = "save"
  /\ upd.data.technologies # {}

\* C15: a crawlWebsite whose URL validateUrl rejects fails at once: the call
\* that fails so leaves the count of applyRateLimit calls, the map of the
\* limiter and the count of axios.get calls as they were, and only a valid
\* URL is ever at the rate gate or fetched
C15_InvalidBeforeGate ==
  /\ [][(Len(log') > Len(log) /\ log'[Len(log')].outcome = "invalid") =>
          /\ run.pc = "loop" /\ run'.pc = "loop"
          /\ run'.gated = run.gated /\ run'.fetches = run.fetches
          /\ requests' = requests]_vars
  /\ [](run.pc \in {"gate", "fetch"} => validateUrl(run.cur.url).ok)
  /\ [](run.gated = Len(SelectSeq(log, IsFetch)) + (IF run.pc = "fetch" THEN 1 ELSE 0)
          \/ Killed)
\* a batch returned whose first URL was rejected and whose second was
\* fetched through the only call of the rate gate
C15_Witness ==
  /\ Batch /\ Done /\ Len(log) = 2
  /\ log[1].outcome = "invalid" /\ log[2].outcome = "ok"
  /\ run.gated = 1

C18_Terminates ==
  (Deep /\ ~Ended) ~> Ended
\* a deep crawl returned on a graph with a page linking to itself, after a
\* visit failed and after an entry was discarded
C18_Witness ==
  /\ Deep /\ Done /\ Len(FailLog) > 0 /\ run.taken > Len(log)
  /\ \E page \in DOMAIN web :
       \E i \in DOMAIN LinksOf(page) : LinksOf(page)[i].url = page

\* C19: the URL of the visit in progress in deepCrawlWebsite is in the
\* visited set, and so is the URL of every visit that was made, failed or
\* not
C19_MarkBeforeVisit ==
  Deep => /\ run.pc \in {"gate", "fetch"} => run.cur.url \in run.visited
          /\ \A i \in DOMAIN log : IsFetch(log[i]) => log[i].raw \in run.visited

C21_PrivateState ==
  /\ run.pc = "done" =>
       /\ ReturnedResults(run) = Alone(run, log).results
       /\ Alone(run, log).visits = Len(log)
  /\ other.run.pc = "done" =>
       /\ ReturnedResults(other.run) = Alone(other.run, other.log).results
       /\ Alone(other.run, other.log).visits = Len(other.log)
\* both runs returned, one of them having visited a page while the other,
\* suspended, had that page in its queue or its visited set
C21_Witness ==
  /\ run.pc = "done" /\ other.run.pc = "done"
  /\ Len(run.results) > 1 /\ Len(other.run.results) > 0
  /\ \E i \in DOMAIN log : \E j \in DOMAIN other.log :
       /\ IsOk(log[i]) /\ IsOk(other.log[j])
       /\ log[i].raw = other.log[j].raw

\* the requests a preset let through at a time g with lo <= g <= hi
Admitted(preset, lo, hi) ==
  {k \in 1..NumCalls : calls[k] = preset /\ grantedAt[k] >= lo /\ grantedAt[k] <= hi}

\* C22: a limiter answers 429 on account of its own count alone: when a
\* preset rejects a request, it has let through its max of requests within
\* its window before
C22_IndependentLimiters ==
  [][\A k \in 1..NumCalls :
       (calls[k] = "idle" /\ calls'[k] # "idle" /\ grantedAt'[k] < 0) =>
          Cardinality(Admitted(calls'[k], now - OptionsOf(calls'[k]).windowMs, now))
            >= OptionsOf(calls'[k]).max]_vars

\* C29: when all requests of a client go through the `api` preset, no more
\* than its max are let through in any span of its windowMs, whenever the
\* cleanup runs
C29_CleanupKeepsWindow ==
  (\A k \in 1..NumCalls : calls[k] \in {"idle", "api"}) =>
     \A t \in 0..MaxPresetClock :
        Cardinality(Admitted("api", t, t + ApiWindowMs)) <= ApiMax

\* the visit returned its result
PageDone == visit.pc = "done" /\ visit.outcome = "returned"
Anchors == visit.response.data.anchors
Resolved(i) == ResolveURL(Anchors[i], visit.response.url)
Resolvable(i) == Anchors[i] # <<>> /\ Resolved(i).ok
Rank(i) == Cardinality({j \in 1..i : Resolvable(j)})

\* C23: one visit parses the fetched body once: a visit that returned its
\* result called cheerio.load a single time
C23_SingleParse == PageDone => visit.parses = 1

\* C24: the links of a result hold one entry for each anchor whose href
\* resolves, in document order, external being true exactly when the
\* hostname of the resolved URL differs from that of the page; an anchor
\* without href or with one that does not resolve gives no entry
C24_LinkClassification ==
  PageDone =>
    /\ Len(visit.links) = Rank(Len(Anchors))
    /\ \A i \in DOMAIN Anchors :
         Resolvable(i) =>
           visit.links[Rank(i)] =
             [url |-> Href(Resolved(i)),
              external |-> (Resolved(i).host # visit.response.url.host)]
\* a page with an anchor that gives no entry, an external link, and a link
\* to its own hostname on another port
C24_Witness ==
  /\ PageDone
  /\ \E i \in DOMAIN Anchors : ~Resolvable(i)
  /\ \E k \in DOMAIN visit.links : visit.links[k].external

C26_AbsentIsEmpty ==
  PageDone =>
    \A f \in MetaFields :
       ~visit.response.data.tags[f].present => visit.metadata[f] = <<>>
\* C26: every metadata field the page does not carry is the empty string in
\* the result, but canonical, which is then the href of the page; the
\* extraction of a parsed page does not throw
C26_AbsentIsEmptyButCanonical ==
  /\ visit.response.data.ok => visit.outcome # "thrown"
  /\ PageDone =>
       \A f \in MetaFields :
          ~visit.response.data.tags[f].present =>
             visit.metadata[f] = IF f = "canonical" THEN Href(visit.response.url)
                                 ELSE <<>>
\* a page without any of the fields returned its metadata
C26_Witness ==
  /\ PageDone
  /\ visit.response.data.tags = NoTags
  /\ visit.metadata["description"] = <<>>
  /\ visit.metadata["canonical"] = UrlRoot

\* C27: a body that cannot be parsed still gives a result, with empty
\* metadata and no links
C27_DegradesGracefully ==
  (visit.pc = "done" /\ ~visit.response.data.ok) =>
     /\ visit.outcome = "returned"
     /\ visit.metadata = NoMetadata
     /\ visit.links = <<>>

\* C28: a batch returns one entry for each position of its input, in
\* success or in failed: the two lists split the input, each keeps the order
\* of the input, a success entry carries the normalized URL and a failed
\* entry the URL as it was given
C28_BatchPartition ==
  (Batch /\ Done) =>
     LET urls == [i \in DOMAIN run.order |-> run.order[i].url]
         success == ReturnedResults(run)
         failed == ReturnedFailures(run)
     IN  /\ Len(success) + Len(failed) = Len(urls)
         /\ \E ok \in SUBSET DOMAIN urls :
              /\ Len(success) = Cardinality(ok)
              /\ \A i \in DOMAIN urls :
                   IF i \in ok
                   THEN success[Cardinality({j \in ok : j <= i})].url
                          = Href(validateUrl(urls[i]))
                   ELSE failed[Cardinality({j \in DOMAIN urls \ ok : j <= i})].url
                          = urls[i]
\* a batch returned that was given a URL twice, both crawls succeeding, and
\* a URL that is not valid
C28_Witness ==
  /\ Batch /\ Done
  /\ \E i, j \in DOMAIN log :
       i < j /\ run.order[i].url = run.order[j].url /\ IsOk(log[i]) /\ IsOk(log[j])
  /\ \E k \in DOMAIN log : log[k].outcome = "invalid"

\* the invocations of crawl.sh that are in run_crawler
Running == {p \in Procs : sh.proc[p].pc = "run"}

\* C30: at most one invocation of crawl.sh is in run_crawler at any time
C30_SingleInstance == Cardinality(Running) <= 1

\* C7: normalizing a normalized URL gives the same string:
\* validateUrl(validateUrl(u).href).href = validateUrl(u).href
C7_Idempotent == vu.stage = "twice" => vu.twice = vu.once
\* a URL with a default port, a dot segment or repeated slashes was normalized twice
C7_Witness ==
  /\ vu.stage = "twice"
  /\ vu.in # vu.once
  /\ \E i \in 1..(Len(vu.in) - 1) : i > 4 /\ vu.in[i] = "/" /\ vu.in[i + 1] = "/"

\* C5: every applyRateLimit call that was issued is eventually granted and
\* its caller resumed; none is rejected or left pending
C5_NeverDrops ==
  \A k \in 1..NumCalls : (calls[k] # "idle") ~> (calls[k] = "resumed")
\* more calls than the capacity of one window were issued at the same instant and all resumed
C5_Witness ==
  /\ \A k \in 1..NumCalls : calls[k] = "resumed"
  /\ \A k \in 1..NumCalls : grantedAt[k] = grantedAt[1]
  /\ NumCalls > CrawlerMax

\* C6: the grants issued within one window of the crawler's limiter never
\* exceed its max: at most CrawlerMax calls are granted at instants less than
\* one window apart
C6_BoundedThroughput ==
  \A t \in 0..MaxClock :
    Cardinality({k \in 1..NumCalls :
                   grantedAt[k] >= t /\ grantedAt[k] < t + CrawlerWindowMs}) <= CrawlerMax
====
